---- MODULE Spec2Model ----
(***************************************************************************)
(* A model of the Gumbel design-value estimator of WorkflowMSC             *)
(* (src/gumbel.py): the constructor, fit, get_design_value,                *)
(* get_fit_transform and the DataFrame-level fit_transform.                *)
(*                                                                         *)
(* Floats are fixed-point integers with four decimals (value * Scale), or  *)
(* one of the IEEE specials nan, +inf, -inf.  A finite design value is     *)
(* kept as the closed form in (xi, alpha, return_period) that line 95      *)
(* evaluates; which of nan / +inf / -inf / finite the expression yields is *)
(* computed from the arguments.                                            *)
(*                                                                         *)
(* Further down: one call run line by line (SpecSteps), and the month and  *)
(* time-window checks of the workflow classes of src/WorkflowMSC.py,       *)
(* src/QueryMSC.py, src/querymsc.py and src/query_helpers.py               *)
(* (SpecWorkflow).                                                         *)
(***************************************************************************)
EXTENDS Integers, Sequences, FiniteSets, TLC

VARIABLES
    est,      \* the Gumbel instance: None, or its attributes
    series,   \* the Series of annual extremes the client has built
    frame,    \* the DataFrame the client has built
    op,       \* the method called last
    args,     \* the arguments of that call
    result,   \* its outcome: a return value or a raised exception, and the calls made
    last,     \* the outcome of the call before it, when that was the same call
    threads   \* the calls in progress on the one instance, when calls run concurrently

vars == <<est, series, frame, op, args, result, last, threads>>

----------------------------------------------------------------------------
(* Bounds of the model *)

MaxVal == 2      \* observation values are 0..MaxVal
MaxLen == 4      \* a Series has 0..MaxLen values
MaxRows == 4     \* a DataFrame has 0..MaxRows rows
MaxConcRows == 3   \* the table whose groups concurrent calls work on has 0..MaxConcRows rows
MaxSmallRows == 2  \* ... 0..MaxSmallRows in a call with an invalid argument, and
                   \* in a table that is transformed a second time

Scale == 100 * 100      \* fixed point: four decimals

\* a / b rounded to the nearest unit, as a float division rounds; b > 0
Div(a, b) == (2 * a + b) \div (2 * b)

Vals == 0..MaxVal
Stations == {1, 2}      \* station_id values

----------------------------------------------------------------------------
(* Python values *)

PyInt(v) == [type |-> "int", val |-> v]
PyBool(v) == [type |-> "bool", val |-> v]      \* True is 1, False is 0
PyFloat(v) == [type |-> "float", val |-> v]
PyStr == [type |-> "str", val |-> 0]
PyNone == [type |-> "NoneType", val |-> 0]

\* isinstance(a, int): bool is a subclass of int
IsInstanceInt(a) == a.type \in {"int", "bool"}

(* Floats *)
NaN == [k |-> "nan", a |-> 0, b |-> 0, c |-> 0]
PInf == [k |-> "pinf", a |-> 0, b |-> 0, c |-> 0]
NInf == [k |-> "ninf", a |-> 0, b |-> 0, c |-> 0]
Fin(v) == [k |-> "fin", a |-> v, b |-> 0, c |-> 0]
\* the finite value xi - alpha*log(-log(simp)) of line 95, for return period T
Quantile(xi, alpha, T) == [k |-> "quantile", a |-> xi, b |-> alpha, c |-> T]

IsNaN(f) == f.k = "nan"

(* Outcomes of a call *)
Return(v, calls) == [status |-> "return", exc |-> "none", value |-> v, calls |-> calls]
Raise(e, calls) == [status |-> "raise", exc |-> e, value |-> NaN, calls |-> calls]

\* no call came before, or another one
NoCall == [status |-> "none", exc |-> "none", value |-> NaN, calls |-> <<>>]

\* the outcome to remember: that of the call at hand when it is repeated
Repeated(method, arguments) ==
    IF op = method /\ args = arguments THEN result ELSE NoCall

None == [constructed |-> FALSE, return_period |-> PyNone, min_fit |-> PyNone]

----------------------------------------------------------------------------
(* Gumbel.__init__ *)

DefaultMinFit == 10

\* an argument left out of the call
Omitted == [type |-> "omitted", val |-> 0]

\* min_fit=10 in the signature
MinFitOrDefault(min_fit) == IF min_fit = Omitted THEN PyInt(DefaultMinFit) ELSE min_fit

\* mutant: an out-of-range return_period is clamped to 1 instead of rejected
Gumbel_init_clamped(return_period, min_fit) ==
    IF ~IsInstanceInt(return_period) THEN Raise("TypeError", <<"return_period">>)
    ELSE IF ~IsInstanceInt(min_fit) THEN Raise("TypeError", <<"min_fit">>)
    ELSE IF min_fit.val < 2 THEN Raise("ValueError", <<"min_fit">>)
    ELSE Return([constructed |-> TRUE,
                 return_period |-> IF return_period.val < 1 THEN PyInt(1)
                                   ELSE return_period,
                 min_fit |-> min_fit], <<>>)

\* mutant: min_fit is checked before return_period
Gumbel_init_min_fit_first(return_period, min_fit) ==
    IF ~IsInstanceInt(min_fit) THEN Raise("TypeError", <<"min_fit">>)
    ELSE IF min_fit.val < 2 THEN Raise("ValueError", <<"min_fit">>)
    ELSE IF ~IsInstanceInt(return_period) THEN Raise("TypeError", <<"return_period">>)
    ELSE IF return_period.val < 1 THEN Raise("ValueError", <<"return_period">>)
    ELSE Return([constructed |-> TRUE,
                 return_period |-> return_period,
                 min_fit |-> min_fit], <<>>)

\* an exception carries the name of the argument its message is about
Gumbel_init(return_period, min_fit) ==
    IF ~IsInstanceInt(return_period) THEN Raise("TypeError", <<"return_period">>)
    ELSE IF return_period.val < 1 THEN Raise("ValueError", <<"return_period">>)
    ELSE IF ~IsInstanceInt(min_fit) THEN Raise("TypeError", <<"min_fit">>)
    ELSE IF min_fit.val < 2 THEN Raise("ValueError", <<"min_fit">>)
    ELSE Return([constructed |-> TRUE,
                 return_period |-> return_period,
                 min_fit |-> min_fit], <<>>)

----------------------------------------------------------------------------
(* Gumbel.fit *)

RECURSIVE Insert(_, _)
Insert(v, s) ==
    IF s = <<>> THEN <<v>>
    ELSE IF v <= Head(s) THEN <<v>> \o s
    ELSE <<Head(s)>> \o Insert(v, Tail(s))

\* mutant: the sample L-moments are taken over the values in the order given
Sorted_asgiven(s) == s

RECURSIVE Sorted(_)
\* x.sort() in lmoments3's sample L-moments
Sorted(s) == IF s = <<>> THEN <<>> ELSE Insert(Head(s), Sorted(Tail(s)))

RECURSIVE SumSeq(_)
SumSeq(s) == IF s = <<>> THEN 0 ELSE Head(s) + SumSeq(Tail(s))

\* sum over the sorted sample of (i - (n-i-1)) * x[i], i = 0..n-1
RECURSIVE SumXtrans(_, _, _)
SumXtrans(s, j, n) ==
    IF j > n THEN 0 ELSE (2 * j - n - 1) * s[j] + SumXtrans(s, j + 1, n)

\* lmoments3 lmom_ratios(data, nmom=2): [l1, l2], unbiased PWM estimator
SampleLmom(x) ==
    LET n == Len(x)
        s == Sorted(x)
    IN  <<Div(SumSeq(s) * Scale, n),
          Div(SumXtrans(s, 1, n) * Scale, n * (n - 1))>>

Ln2 == 6931         \* np.log(2)
EulerGamma == 5772  \* np.euler_gamma

\* distr.gum.lmom_fit(x): the parameters loc, scale.  lmoments3 raises
\* ValueError for a sample of at most two values and for a second sample
\* L-moment that is not positive (ok = FALSE).
LmomFit(x) ==
    IF Len(x) <= 2 THEN [ok |-> FALSE, loc |-> 0, scale |-> 0]
    ELSE LET lm == SampleLmom(x)
         IN  IF lm[2] <= 0 THEN [ok |-> FALSE, loc |-> 0, scale |-> 0]
             ELSE LET para2 == Div(lm[2] * Scale, Ln2)
                  IN  [ok |-> TRUE,
                       loc |-> lm[1] - Div(EulerGamma * para2, Scale),
                       scale |-> para2]

\* distr.gum.lmom(nmom=2, loc, scale): [l1, l2] of the fitted distribution
GumLmom(loc, scale) ==
    <<loc + Div(EulerGamma * scale, Scale), Div(scale * Ln2, Scale)>>

\* mutant: the sample size test is N > min_fit
fit_strict(self, x) ==
    LET N == Len(x)
    IN  IF N > self.min_fit.val
        THEN LET paras == LmomFit(x)
             IN  IF ~paras.ok THEN Raise("ValueError", <<"fit">>)
                 ELSE LET lmoments == GumLmom(paras.loc, paras.scale)
                          alpha == Div(lmoments[2] * Scale, Ln2)
                          xi == lmoments[1] - Div(EulerGamma * alpha, Scale)
                      IN  Return(<<Fin(xi), Fin(alpha)>>, <<"fit">>)
        ELSE Return(<<NaN, NaN>>, <<"fit">>)

fit(self, x) ==
    LET N == Len(x)
    IN  IF N >= self.min_fit.val
        THEN LET paras == LmomFit(x)
             IN  IF ~paras.ok THEN Raise("ValueError", <<"fit">>)
                 ELSE LET lmoments == GumLmom(paras.loc, paras.scale)
                          alpha == Div(lmoments[2] * Scale, Ln2)
                          xi == lmoments[1] - Div(EulerGamma * alpha, Scale)
                      IN  Return(<<Fin(xi), Fin(alpha)>>, <<"fit">>)
        ELSE Return(<<NaN, NaN>>, <<"fit">>)

----------------------------------------------------------------------------
(* Gumbel.get_design_value *)

\* log(log(T)) to five decimals (in units of 1/(10*Scale)), for the return
\* periods T >= 2 of the model: simp > 1 exactly when xi/alpha < log(log(T))
LogLog(T) == CASE T = 2 -> -36651
               [] T = 5 -> 47588
               [] T = 10 -> 83403
               [] T = 50 -> 136405
               [] T = 100 -> 152718

\* exp(-exp(r)) underflows to 0.0 for r above log(745.13), and rounds to 1.0 for
\* r below log(1.1e-16)
ExpUnderflow == 66136
ExpOne == -367461

\* where simp = (1.0 - f_r) + exp(-exp(xi/alpha)) lies: "zero", "inside" (0, 1),
\* "one", or "above" 1
SimpClass(T, r) ==
    IF T = 1
    THEN (IF r > ExpUnderflow THEN "zero"
          ELSE IF r < ExpOne THEN "one" ELSE "inside")
    ELSE (IF 10 * r < LogLog(T) THEN "above" ELSE "inside")

\* lines 89-95, for alpha that passed the check of line 85
DesignVal(T, xi, alpha) ==
    IF IsNaN(xi) \/ IsNaN(alpha) THEN NaN
    ELSE LET r == Div(xi.a * Scale, alpha.a)
             c == SimpClass(T, r)
         IN  CASE c = "above" -> NaN
               [] c = "one" -> PInf
               [] c = "zero" -> NInf
               [] c = "inside" -> Quantile(xi.a, alpha.a, T)

\* alpha <= 0.0: false for nan
LeqZero(f) == f.k = "fin" /\ f.a <= 0

\* a / b in fixed point, b > 0, without the overflow of a * Scale
Ratio(a, b) == (a \div b) * Scale + Div((a % b) * Scale, b)

RECURSIVE Pow2(_)
Pow2(k) == IF k = 0 THEN 1 ELSE 2 * Pow2(k - 1)

\* the terms f^n / n! of exp(f), from index n to index 7; t is the term before
RECURSIVE ExpSeries(_, _, _)
ExpSeries(f, t, n) ==
    IF n > 7 THEN 0
    ELSE LET u == Div(t * f, n * Scale)
         IN  u + ExpSeries(f, u, n + 1)

\* np.exp(x) to four decimals: x = k log(2) + f with 0 <= f < log(2), and
\* exp(x) = 2^k exp(f)
Exp(x) ==
    LET k == x \div Ln2
        f == x - k * Ln2
        e == Scale + ExpSeries(f, Scale, 1)
    IN  IF k >= 0 THEN e * Pow2(k)
        ELSE IF k < -20 THEN 0
        ELSE Div(e, Pow2(-k))

\* np.log(y) to four decimals, y > 0: y = m 2^k with 1 <= m < 2, and
\* log(m) = 2 atanh((m - 1) / (m + 1))
RECURSIVE Log(_)
Log(y) ==
    IF y >= 2 * Scale THEN Log(Div(y, 2)) + Ln2
    ELSE IF y < Scale THEN Log(2 * y) - Ln2
    ELSE LET z == Div((y - Scale) * Scale, y + Scale)
             z2 == Div(z * z, Scale)
             t3 == Div(z * z2, Scale)
             t5 == Div(t3 * z2, Scale)
             t7 == Div(t5 * z2, Scale)
             t9 == Div(t7 * z2, Scale)
         IN  2 * (z + Div(t3, 3) + Div(t5, 5) + Div(t7, 7) + Div(t9, 9))

\* exp(-exp(u)); exp(u) above exp(3) leaves nothing at four decimals
ExpNegExp(u) == IF u > 3 * Scale THEN 0 ELSE Exp(-Exp(u))

\* mutant: the textbook quantile, without the term added to 1 - f_r
QuantileValue_textbook(xi, alpha, T) ==
    LET f_r == Div(Scale, T)
        simp == Scale - f_r
    IN  xi - Div(alpha * Div(Log(-Log(simp)), 10), Scale \div 10)

\* mutant: the logarithm term is added, not subtracted
QuantileValue_plus(xi, alpha, T) ==
    LET f_r == Div(Scale, T)
        simp == (Scale - f_r) + ExpNegExp(Ratio(xi, alpha))
        inner == -Log(IF simp >= Scale THEN Scale - 1 ELSE simp)
        outer == Log(IF inner <= 0 THEN 1 ELSE inner)
    IN  xi + Div(alpha * Div(outer, 10), Scale \div 10)

\* lines 89-95 in numbers, to four decimals, for a return period T >= 2 and
\* arguments for which simp lies inside (0, 1); a simp or a -log(simp) that
\* the four decimals round to the edge is taken one unit inside
QuantileValue(xi, alpha, T) ==
    LET f_r == Div(Scale, T)
        simp == (Scale - f_r) + ExpNegExp(Ratio(xi, alpha))
        inner == -Log(IF simp >= Scale THEN Scale - 1 ELSE simp)
        outer == Log(IF inner <= 0 THEN 1 ELSE inner)
    IN  xi - Div(alpha * Div(outer, 10), Scale \div 10)

\* the number a finite design value stands for
Evaluate(q) == QuantileValue(q.a, q.b, q.c)

\* mutant: the check is not (alpha > 0.0), which rejects nan as well
get_design_value_positive(self, xi, alpha) ==
    IF ~(alpha.k = "fin" /\ alpha.a > 0) THEN Raise("ValueError", <<"get_design_value">>)
    ELSE Return(DesignVal(self.return_period.val, xi, alpha), <<"get_design_value">>)

\* mutant: the check is alpha < 0.0, and a zero scale yields nan
get_design_value_strict(self, xi, alpha) ==
    IF alpha.k = "fin" /\ alpha.a < 0 THEN Raise("ValueError", <<"get_design_value">>)
    ELSE IF alpha.k = "fin" /\ alpha.a = 0 THEN Return(NaN, <<"get_design_value">>)
    ELSE Return(DesignVal(self.return_period.val, xi, alpha), <<"get_design_value">>)

\* mutant: the logarithms raise on an argument that is not positive, as
\* math.log does
get_design_value_mathlog(self, xi, alpha) ==
    IF LeqZero(alpha) THEN Raise("ValueError", <<"get_design_value">>)
    ELSE IF /\ ~IsNaN(xi) /\ ~IsNaN(alpha)
            /\ SimpClass(self.return_period.val, Div(xi.a * Scale, alpha.a)) # "inside"
         THEN Raise("ValueError", <<"get_design_value">>)
    ELSE Return(DesignVal(self.return_period.val, xi, alpha), <<"get_design_value">>)

get_design_value(self, xi, alpha) ==
    IF LeqZero(alpha) THEN Raise("ValueError", <<"get_design_value">>)
    ELSE Return(DesignVal(self.return_period.val, xi, alpha), <<"get_design_value">>)

----------------------------------------------------------------------------
(* Gumbel.get_fit_transform *)

\* mutant: the undefined pair of fit is returned without calling get_design_value
get_fit_transform_shortcut(self, x) ==
    LET f == fit(self, x)
    IN  IF f.status = "raise" THEN Raise(f.exc, f.calls)
        ELSE IF IsNaN(f.value[2]) THEN Return(NaN, f.calls)
        ELSE LET d == get_design_value(self, f.value[1], f.value[2])
             IN  [d EXCEPT !.calls = f.calls \o d.calls]

get_fit_transform(self, x) ==
    LET f == fit(self, x)
    IN  IF f.status = "raise" THEN Raise(f.exc, f.calls)
        ELSE LET d == get_design_value(self, f.value[1], f.value[2])
             IN  [d EXCEPT !.calls = f.calls \o d.calls]

----------------------------------------------------------------------------
(* Gumbel.fit_transform *)

\* a column label: its name, then the suffixes a join has appended to it
Label(name) == <<name>>
Suffixed(label, suffix) == Append(label, suffix)

StationId == Label("station_id")          \* default of station_variable
RainfallRate == Label("rainfall_rate")    \* default of variable
Missing == Label("no_such_column")        \* a label no table carries

\* a table: its column labels in order, and its rows, each a tuple of cells
DataFrame(columns, rows) == [type |-> "DataFrame", columns |-> columns, rows |-> rows]
PyList(rows) == [type |-> "list", rows |-> rows]

Row(s, v) == <<s, v>>

HasColumn(columns, label) == \E j \in DOMAIN columns : columns[j] = label

\* position of the (first) column bearing the label
ColumnOf(columns, label) ==
    CHOOSE j \in DOMAIN columns :
        columns[j] = label /\ \A i \in 1..(j - 1) : columns[i] # label

\* mutant: the groups come in descending key order
RECURSIVE SortedKeys_descending(_)
SortedKeys_descending(S) ==
    IF S = {} THEN <<>>
    ELSE LET m == CHOOSE k \in S : \A o \in S : k >= o
         IN  <<m>> \o SortedKeys_descending(S \ {m})

\* df.groupby(station_variable): the group keys, sorted ascending (sort=True)
RECURSIVE SortedKeys(_)
SortedKeys(S) ==
    IF S = {} THEN <<>>
    ELSE LET m == CHOOSE k \in S : \A o \in S : k <= o
         IN  <<m>> \o SortedKeys(S \ {m})

\* the keys found in column k
GroupKeys(rows, k) == {rows[i][k] : i \in DOMAIN rows}

\* mutant: the groups are not separated, every group gets the whole column
RECURSIVE GroupValues_all(_, _, _, _)
GroupValues_all(rows, k, v, g) ==
    IF rows = <<>> THEN <<>>
    ELSE <<Head(rows)[v]>> \o GroupValues_all(Tail(rows), k, v, g)

\* [variable] of one group: the cells of column v in the rows whose column k
\* holds g, in row order
RECURSIVE GroupValues(_, _, _, _)
GroupValues(rows, k, v, g) ==
    IF rows = <<>> THEN <<>>
    ELSE (IF Head(rows)[k] = g THEN <<Head(rows)[v]>> ELSE <<>>)
         \o GroupValues(Tail(rows), k, v, g)

\* mutant: the group's Series is a view of df's column
GroupBuffer_view(rows, k, v, g) ==
    [copy |-> FALSE, values |-> GroupValues(rows, k, v, g)]

\* the Series apply hands to the function for group g: groupby takes the rows
\* of the group out of df into an array of its own, so a write to it does not
\* reach df
GroupBuffer(rows, k, v, g) ==
    [copy |-> TRUE, values |-> GroupValues(rows, k, v, g)]

\* the array fit was given, once fit is over: lmom_ratios sorts it in place
\* when the fit gets that far (N >= min_fit, and more than two values)
ArrayAfterFit(self, x) ==
    IF Len(x) >= self.min_fit.val /\ Len(x) > 2 THEN Sorted(x) ELSE x

\* .apply(self.get_fit_transform): one call per group, in key order; the first
\* exception ends the apply.  value: the Series of results, indexed by group key
RECURSIVE Apply(_, _, _, _, _, _, _)
Apply(self, rows, k, v, keys, acc, calls) ==
    IF keys = <<>> THEN Return(acc, calls)
    ELSE LET g == Head(keys)
             r == get_fit_transform(self, GroupBuffer(rows, k, v, g).values)
         IN  IF r.status = "raise" THEN Raise(r.exc, Append(calls, g))
             ELSE Apply(self, rows, k, v, Tail(keys), acc @@ (g :> r.value),
                        Append(calls, g))

\* the rows of df once that apply is over: a row of a group that was processed
\* holds what the call wrote at its place into the array it was given, when
\* that array is df's own
RowsAfterApply(self, rows, k, v, processed) ==
    [i \in DOMAIN rows |->
        LET g == rows[i][k]
            b == GroupBuffer(rows, k, v, g)
        IN  IF b.copy \/ \A j \in DOMAIN processed : processed[j] # g
            THEN rows[i]
            ELSE [rows[i] EXCEPT ![v] =
                     ArrayAfterFit(self, b.values)[
                         Cardinality({j \in 1..i : rows[j][k] = g})]]]

\* mutant: on=station_variable is left out, the join aligns on the row index
Join_on_index(rows, k, applied) ==
    [i \in DOMAIN rows |->
        Append(rows[i], IF i \in DOMAIN applied THEN applied[i] ELSE NaN)]

\* df.join(series, on=station_variable, ...): a left join on the key; every
\* row keeps its cells and gains the value applied to its group
Join(rows, k, applied) ==
    [i \in DOMAIN rows |->
        Append(rows[i], IF rows[i][k] \in DOMAIN applied
                        THEN applied[rows[i][k]] ELSE NaN)]

\* mutant: a column that bears the derived label already is written over
JoinedColumns_overwrite(columns, variable) ==
    IF HasColumn(columns, Suffixed(variable, "_dval")) THEN columns
    ELSE Append(columns, Suffixed(variable, "_dval"))

\* the labels of the joined table: the applied Series bears the label of the
\* value column, which df bears too, so df's columns take lsuffix '' and the
\* Series takes rsuffix '_dval'; the two sides are not compared after that
JoinedColumns(columns, variable) == Append(columns, Suffixed(variable, "_dval"))

\* mutant: a missing column is reported like a wrong type
ColumnNotFound_as_type == "TypeError"

\* what pandas raises for a label that is not a column of df
ColumnNotFound == "KeyError"

fit_transform(self, df, station_variable, variable) ==
    IF df.type # "DataFrame" THEN Raise("TypeError", <<>>)
    ELSE IF ~HasColumn(df.columns, station_variable) THEN Raise(ColumnNotFound, <<>>)
    ELSE IF ~HasColumn(df.columns, variable) THEN Raise(ColumnNotFound, <<>>)
    ELSE LET k == ColumnOf(df.columns, station_variable)
             v == ColumnOf(df.columns, variable)
             a == Apply(self, df.rows, k, v, SortedKeys(GroupKeys(df.rows, k)),
                        <<>>, <<>>)
         IN  IF a.status = "raise" THEN a
             ELSE Return(DataFrame(JoinedColumns(df.columns, variable),
                                   Join(df.rows, k, a.value)), a.calls)

\* df itself once fit_transform(df, ...) is over, the apply having processed
\* the groups of the keys in processed (none when the call raised before it)
FrameAfter(self, df, station_variable, variable, processed) ==
    IF processed = <<>> THEN df
    ELSE [df EXCEPT !.rows =
             RowsAfterApply(self, df.rows, ColumnOf(df.columns, station_variable),
                            ColumnOf(df.columns, variable), processed)]

\* mutant: a method leaves the return period used up
SelfAfter_period_reset(self) == [self EXCEPT !.return_period = PyInt(1)]

\* mutant: a method leaves min_fit cleared
SelfAfter_min_fit_reset(self) == [self EXCEPT !.min_fit = PyInt(1)]

\* the instance once one of fit, get_design_value, get_fit_transform and
\* fit_transform is over: none of them assigns an attribute
SelfAfter(self) == self

\* the Series itself once fit(x) is over: written in place when the array
\* lmom_ratios gets is the Series' own (float64 data), left alone when the
\* conversion to float64 had to copy
SeriesAfterFit(self, x) == {x, ArrayAfterFit(self, x)}

----------------------------------------------------------------------------
(* The calls a client makes *)

ReturnPeriodArgs == {PyInt(0), PyInt(1), PyInt(2), PyInt(50), PyBool(1), PyFloat(50), PyStr}
MinFitArgs == {PyInt(1), PyInt(2), PyInt(3), PyBool(1), PyFloat(3), PyNone}

\* xi and alpha of a direct call: nan, the small integers, and values that take
\* xi/alpha above log(745.13) and below log(1.1e-16)
FloatArgs ==
    {NaN} \cup {Fin(v * Scale) : v \in -1..MaxVal}
          \cup {Fin(7 * Scale), Fin(-7 * Scale), Fin(Scale \div 10)}

\* the table before any row is added
EmptyFrame == DataFrame(<<StationId, RainfallRate>>, <<>>)

Init ==
    /\ est = None
    /\ series = <<>>
    /\ frame = EmptyFrame
    /\ op = "none"
    /\ args = <<>>
    /\ result = Return(NaN, <<>>)
    /\ last = NoCall
    /\ threads = <<>>

\* Gumbel(return_period, min_fit) and Gumbel(return_period), before any data is built
Construct ==
    /\ series = <<>> /\ frame = EmptyFrame
    /\ \E return_period \in ReturnPeriodArgs :
        \E min_fit \in MinFitArgs \cup {Omitted} :
          LET r == Gumbel_init(return_period, MinFitOrDefault(min_fit))
          IN  /\ op' = "__init__"
              /\ args' = <<return_period, min_fit>>
              /\ result' = r
              /\ est' = IF r.status = "return" THEN r.value ELSE None
    /\ last' = NoCall
    /\ UNCHANGED <<series, frame, threads>>

\* the client adds one annual extreme to the Series
AppendValue ==
    /\ est.constructed /\ frame = EmptyFrame /\ Len(series) < MaxLen
    /\ \E v \in Vals : series' = Append(series, v)
    /\ op' = "append" /\ args' = <<>> /\ result' = Return(NaN, <<>>)
    /\ last' = NoCall
    /\ UNCHANGED <<est, frame, threads>>

\* the client adds one (station, annual extreme) row to the DataFrame
AppendRow ==
    /\ est.constructed /\ series = <<>>
    /\ frame.columns = EmptyFrame.columns /\ Len(frame.rows) < MaxRows
    /\ \E s \in Stations, v \in Vals :
          frame' = [frame EXCEPT !.rows = Append(frame.rows, Row(s, v))]
    /\ op' = "append" /\ args' = <<>> /\ result' = Return(NaN, <<>>)
    /\ last' = NoCall
    /\ UNCHANGED <<est, series, threads>>

\* df = g.fit_transform(df): the client goes on with the returned table
Reassign ==
    /\ op = "fit_transform" /\ result.status = "return"
    /\ frame.columns = EmptyFrame.columns
    /\ Len(frame.rows) <= MaxSmallRows
    /\ frame' = result.value
    /\ op' = "assign" /\ args' = <<>> /\ result' = Return(NaN, <<>>)
    /\ last' = NoCall
    /\ UNCHANGED <<est, series, threads>>

CallFit ==
    /\ est.constructed /\ frame = EmptyFrame
    /\ op' = "fit"
    /\ args' = <<series>>
    /\ result' = fit(est, series)
    /\ last' = Repeated("fit", <<series>>)
    /\ series' \in SeriesAfterFit(est, series)
    /\ est' = SelfAfter(est)
    /\ UNCHANGED <<frame, threads>>

CallGetDesignValue ==
    /\ est.constructed /\ series = <<>> /\ frame = EmptyFrame
    /\ \E xi \in FloatArgs, alpha \in FloatArgs :
        /\ op' = "get_design_value"
        /\ args' = <<xi, alpha>>
        /\ result' = get_design_value(est, xi, alpha)
        /\ last' = Repeated("get_design_value", <<xi, alpha>>)
    /\ est' = SelfAfter(est)
    /\ UNCHANGED <<series, frame, threads>>

CallGetFitTransform ==
    /\ est.constructed /\ frame = EmptyFrame
    /\ op' = "get_fit_transform"
    /\ args' = <<series>>
    /\ result' = get_fit_transform(est, series)
    /\ last' = Repeated("get_fit_transform", <<series>>)
    /\ series' \in SeriesAfterFit(est, series)
    /\ est' = SelfAfter(est)
    /\ UNCHANGED <<frame, threads>>

\* fit_transform(df), fit_transform(df, station_variable, variable) and
\* fit_transform(rows as a list); the calls with an argument that is not valid
\* are made on tables of at most MaxSmallRows rows
CallFitTransform ==
    /\ est.constructed /\ series = <<>>
    /\ \E obj \in {frame, PyList(frame.rows)} :
        \E station_variable \in {StationId, Missing} :
          \E variable \in {RainfallRate, Missing} :
            /\ \/ Len(frame.rows) <= MaxSmallRows
               \/ /\ obj.type = "DataFrame"
                  /\ station_variable = StationId /\ variable = RainfallRate
            /\ op' = "fit_transform"
            /\ args' = <<obj, station_variable, variable>>
            /\ result' = fit_transform(est, obj, station_variable, variable)
            /\ frame' = FrameAfter(est, frame, station_variable, variable,
                                   result'.calls)
            /\ last' = Repeated("fit_transform", <<obj, station_variable, variable>>)
    /\ est' = SelfAfter(est)
    /\ UNCHANGED <<series, threads>>

Next ==
    \/ Construct
    \/ AppendValue
    \/ AppendRow
    \/ Reassign
    \/ CallFit
    \/ CallGetDesignValue
    \/ CallGetFitTransform
    \/ CallFitTransform

Spec == Init /\ [][Next]_vars

----------------------------------------------------------------------------
(* Concurrent calls on one instance: each station's values are worked on by *)
(* a call of its own, the calls interleaving between the lines that read    *)
(* the instance                                                             *)

ConcReturnPeriods == {PyInt(1), PyInt(50)}
ConcMinFits == {PyInt(2), PyInt(3)}
ConcMethods == {"fit", "get_design_value", "get_fit_transform"}

\* the arguments of a concurrent get_design_value
ConcXi == Fin(2 * Scale)
ConcAlphas == {Fin(0), Fin(Scale)}

ConcFrames ==
    {DataFrame(EmptyFrame.columns, rows) :
        rows \in UNION {[1..n -> Stations \X Vals] : n \in 0..MaxConcRows}}

\* the sample of the call that works on station t
SampleOf(t) == GroupBuffer(frame.rows, 1, 2, t).values

\* a call at its first line that reads the instance: line 55 in fit, reached
\* at once by get_fit_transform too, line 85 in get_design_value
Entered(method, alpha) ==
    [method |-> method,
     pc |-> IF method = "get_design_value" THEN "line85" ELSE "line55",
     xi |-> ConcXi, alpha |-> alpha, result |-> NoCall]

InitConcurrent ==
    /\ \E return_period \in ConcReturnPeriods, min_fit \in ConcMinFits :
          /\ op = "__init__"
          /\ args = <<return_period, min_fit>>
          /\ result = Gumbel_init(return_period, min_fit)
          /\ est = result.value
    /\ series = <<>>
    /\ frame \in ConcFrames
    /\ last = NoCall
    /\ threads \in [Stations ->
                      {Entered(m, a) : m \in ConcMethods, a \in ConcAlphas}]
    /\ \A t \in Stations :
          threads[t].method # "get_design_value" => threads[t].alpha = Fin(Scale)

\* line 55 reads self.min_fit; the rest of fit works on the call's own values.
\* fit returns to its caller: the client, or line 111 of get_fit_transform,
\* which goes on to get_design_value unless fit raised
TestMinFit(t) ==
    /\ threads[t].pc = "line55"
    /\ LET f == fit(est, SampleOf(t))
       IN  threads' =
             [threads EXCEPT ![t] =
                IF threads[t].method = "fit" \/ f.status = "raise"
                THEN [@ EXCEPT !.pc = "done", !.result = f]
                ELSE [@ EXCEPT !.pc = "line85", !.result = f,
                               !.xi = f.value[1], !.alpha = f.value[2]]]
    /\ est' = SelfAfter(est)
    /\ UNCHANGED <<series, frame, op, args, result, last>>

\* line 85: alpha <= 0.0 raises before the instance is read
CheckAlpha(t) ==
    /\ threads[t].pc = "line85"
    /\ LET d == get_design_value(est, threads[t].xi, threads[t].alpha)
       IN  threads' =
             [threads EXCEPT ![t] =
                IF LeqZero(threads[t].alpha)
                THEN [@ EXCEPT !.pc = "done", !.result = d]
                ELSE [@ EXCEPT !.pc = "line89"]]
    /\ est' = IF LeqZero(threads[t].alpha) THEN SelfAfter(est) ELSE est
    /\ UNCHANGED <<series, frame, op, args, result, last>>

\* line 89 reads self.return_period; lines 92-97 work on the call's own values
ReadReturnPeriod(t) ==
    /\ threads[t].pc = "line89"
    /\ LET d == get_design_value(est, threads[t].xi, threads[t].alpha)
       IN  threads' =
             [threads EXCEPT ![t] =
                [@ EXCEPT !.pc = "done",
                          !.result = IF threads[t].method = "get_fit_transform"
                                     THEN [d EXCEPT !.calls = <<"fit">> \o d.calls]
                                     ELSE d]]
    /\ est' = SelfAfter(est)
    /\ UNCHANGED <<series, frame, op, args, result, last>>

NextConcurrent ==
    \E t \in Stations :
        \/ TestMinFit(t)
        \/ CheckAlpha(t)
        \/ ReadReturnPeriod(t)

SpecConcurrent == InitConcurrent /\ [][NextConcurrent]_vars

----------------------------------------------------------------------------
(* One call run line by line: threads is the call stack, its last entry the *)
(* activation that runs; a callee hands its value to the activation below   *)
(* it, an exception unwinds the whole stack, no line catching any           *)

MaxStepRows == 3    \* the table of a call run line by line has 0..MaxStepRows rows

StepAlphas == {NaN, Fin(0), Fin(Scale)}

StepFrames ==
    {DataFrame(EmptyFrame.columns, rows) :
        rows \in UNION {[1..n -> Stations \X Vals] : n \in 0..MaxStepRows}}

\* the activation of method at line pc, with its sample or its parameters
Activation(method, pc, x, xi, alpha) ==
    [method |-> method, pc |-> pc, x |-> x, xi |-> xi, alpha |-> alpha,
     keys |-> <<>>, acc |-> <<>>, i |-> 0]

\* the activation that runs
Top == threads[Len(threads)]

At(method, pc) == threads # <<>> /\ Top.method = method /\ Top.pc = pc

\* mutant: the apply does not move on to the next group
RestOfKeys_same(keys) == keys

\* the groups left to the apply once the one at hand is done
RestOfKeys(keys) == Tail(keys)

\* the stack once the activation that runs has returned val: the caller, when
\* there is one, takes the value where it waits for it
AfterReturn(val) ==
    LET n == Len(threads)
    IN  IF n = 1 THEN <<>>
        ELSE LET c == threads[n - 1]
             IN  Append(SubSeq(threads, 1, n - 2),
                     IF c.method = "fit_transform"
                     THEN [c EXCEPT !.acc = c.acc @@ (Head(c.keys) :> val),
                                    !.keys = RestOfKeys(c.keys)]
                     ELSE IF c.pc = "line111"
                     THEN [c EXCEPT !.xi = val[1], !.alpha = val[2],
                                    !.pc = "line112"]
                     ELSE [c EXCEPT !.acc = <<val>>, !.pc = "return"])

StepReturn(val) ==
    /\ threads' = AfterReturn(val)
    /\ result' = IF Len(threads) = 1 THEN Return(val, <<>>) ELSE result

StepRaise(e) ==
    /\ threads' = <<>>
    /\ result' = Raise(e, <<>>)

StepGoto(pc) ==
    /\ threads' = [threads EXCEPT ![Len(threads)].pc = pc]
    /\ result' = result

StepCall(activation) ==
    /\ threads' = Append(threads, activation)
    /\ result' = result

InitSteps ==
    /\ \E return_period \in ConcReturnPeriods, min_fit \in ConcMinFits :
          est = Gumbel_init(return_period, min_fit).value
    /\ series = <<>>
    /\ frame \in StepFrames
    /\ op = "none"
    /\ args = <<>>
    /\ result = NoCall
    /\ last = NoCall
    /\ threads = <<>>

\* the client calls one method
ClientCalls ==
    /\ op = "none"
    /\ \/ \E method \in {"fit", "get_fit_transform"}, t \in Stations :
            LET x == GroupValues(frame.rows, 1, 2, t)
            IN  /\ op' = method
                /\ args' = <<x>>
                /\ threads' = <<Activation(method,
                                    IF method = "fit" THEN "line55" ELSE "line111",
                                    x, NaN, NaN)>>
       \/ \E alpha \in StepAlphas :
            /\ op' = "get_design_value"
            /\ args' = <<ConcXi, alpha>>
            /\ threads' = <<Activation("get_design_value", "line85", <<>>,
                                       ConcXi, alpha)>>
       \/ \E obj \in {frame, PyList(frame.rows)} :
            \E station_variable \in {StationId, Missing} :
              \E variable \in {RainfallRate, Missing} :
                /\ op' = "fit_transform"
                /\ args' = <<obj, station_variable, variable>>
                /\ threads' = <<Activation("fit_transform", "line132", <<>>,
                                           NaN, NaN)>>
    /\ UNCHANGED <<est, series, frame, result, last>>

\* line 132: isinstance(df, pd.DataFrame)
Line132 ==
    /\ At("fit_transform", "line132")
    /\ IF args[1].type # "DataFrame" THEN StepRaise("TypeError")
       ELSE StepGoto("line138")
    /\ UNCHANGED <<est, series, frame, op, args, last>>

\* line 138: df.groupby(station_variable)[variable]
Line138 ==
    /\ At("fit_transform", "line138")
    /\ IF ~HasColumn(args[1].columns, args[2]) \/ ~HasColumn(args[1].columns, args[3])
       THEN StepRaise(ColumnNotFound)
       ELSE /\ threads' =
                 [threads EXCEPT ![Len(threads)] =
                     [Top EXCEPT !.pc = "line139",
                                 !.keys = SortedKeys(GroupKeys(args[1].rows,
                                              ColumnOf(args[1].columns, args[2])))]]
            /\ result' = result
    /\ UNCHANGED <<est, series, frame, op, args, last>>

\* line 139: .apply(self.get_fit_transform) calls it on the next group, and
\* goes on to the join when no group is left
Line139 ==
    /\ At("fit_transform", "line139")
    /\ IF Top.keys = <<>> THEN StepGoto("line140")
       ELSE StepCall(Activation("get_fit_transform", "line111",
                         GroupBuffer(args[1].rows,
                                     ColumnOf(args[1].columns, args[2]),
                                     ColumnOf(args[1].columns, args[3]),
                                     Head(Top.keys)).values,
                         NaN, NaN))
    /\ UNCHANGED <<est, series, frame, op, args, last>>

\* lines 138-142: df.join(...) and return df_new
Line140 ==
    /\ At("fit_transform", "line140")
    /\ StepReturn(DataFrame(JoinedColumns(args[1].columns, args[3]),
                            Join(args[1].rows, ColumnOf(args[1].columns, args[2]),
                                 Top.acc)))
    /\ UNCHANGED <<est, series, frame, op, args, last>>

\* line 111: xi, alpha = self.fit(x)
Line111 ==
    /\ At("get_fit_transform", "line111")
    /\ StepCall(Activation("fit", "line55", Top.x, NaN, NaN))
    /\ UNCHANGED <<est, series, frame, op, args, last>>

\* line 112: self.get_design_value(xi, alpha) is called ...
Line112 ==
    /\ At("get_fit_transform", "line112")
    /\ StepCall(Activation("get_design_value", "line85", <<>>, Top.xi, Top.alpha))
    /\ UNCHANGED <<est, series, frame, op, args, last>>

\* ... and its value returned
Line112Return ==
    /\ At("get_fit_transform", "return")
    /\ StepReturn(Top.acc[1])
    /\ UNCHANGED <<est, series, frame, op, args, last>>

\* lines 50-55 and 69-70: N >= self.min_fit, else return nan, nan
Line55 ==
    /\ At("fit", "line55")
    /\ IF Len(Top.x) >= est.min_fit.val THEN StepGoto("line58")
       ELSE StepReturn(<<NaN, NaN>>)
    /\ UNCHANGED <<est, series, frame, op, args, last>>

\* line 58, inside lmom_fit: the sample L-moments pass over the values, one
\* value a step, once the sample is known to have more than two
Line58Pass ==
    /\ At("fit", "line58")
    /\ Len(Top.x) > 2 /\ Top.i < Len(Top.x)
    /\ threads' = [threads EXCEPT ![Len(threads)].i = Top.i + 1]
    /\ result' = result
    /\ UNCHANGED <<est, series, frame, op, args, last>>

\* lines 58-68: lmom_fit raises, or the parameters are returned
Line58End ==
    /\ At("fit", "line58")
    /\ Len(Top.x) <= 2 \/ Top.i = Len(Top.x)
    /\ LET f == fit(est, Top.x)
       IN  IF f.status = "raise" THEN StepRaise(f.exc) ELSE StepReturn(f.value)
    /\ UNCHANGED <<est, series, frame, op, args, last>>

\* lines 85-86: alpha <= 0.0 raises
Line85 ==
    /\ At("get_design_value", "line85")
    /\ IF LeqZero(Top.alpha) THEN StepRaise("ValueError") ELSE StepGoto("line89")
    /\ UNCHANGED <<est, series, frame, op, args, last>>

\* lines 89-97
Line89 ==
    /\ At("get_design_value", "line89")
    /\ StepReturn(get_design_value(est, Top.xi, Top.alpha).value)
    /\ UNCHANGED <<est, series, frame, op, args, last>>

NextSteps ==
    \/ ClientCalls
    \/ Line132
    \/ Line138
    \/ Line139
    \/ Line140
    \/ Line111
    \/ Line112
    \/ Line112Return
    \/ Line55
    \/ Line58Pass
    \/ Line58End
    \/ Line85
    \/ Line89

\* the interpreter runs the line at hand as long as there is one
SpecSteps == InitSteps /\ [][NextSteps]_vars /\ WF_vars(NextSteps)

----------------------------------------------------------------------------
(* The workflow classes: WorkflowMSC (src/WorkflowMSC.py), workflow_tools   *)
(* (src/QueryMSC.py), WorkflowTools (src/querymsc.py) and the helpers of    *)
(* src/query_helpers.py.  est is the workflow instance; a query is kept as  *)
(* the values it was built from                                             *)

FirstYear == 1999     \* start_time and end_time lie in FirstYear..LastYear
LastYear == 2001
MaxMonthArg == 13     \* a month argument is one of 0..MaxMonthArg

Years == FirstYear..LastYear
MonthArgs == 0..MaxMonthArg

\* datetime.datetime(year, month, day)
DateTime(year, month, day) == [year |-> year, month |-> month, day |-> day]

\* the dates a client passes: the first and the 28th of January, February and
\* December
Dates == {DateTime(y, m, d) : y \in Years, m \in {1, 2, 12}, d \in {1, 28}}

\* a < b on datetimes
Before(a, b) ==
    \/ a.year < b.year
    \/ a.year = b.year /\ a.month < b.month
    \/ a.year = b.year /\ a.month = b.month /\ a.day < b.day

\* calendar.isleap
IsLeap(year) == year % 4 = 0 /\ (year % 100 # 0 \/ year % 400 = 0)

\* calendar.monthrange(year, month)[1]
monthrange(year, month) ==
    IF month = 2 THEN (IF IsLeap(year) THEN 29 ELSE 28)
    ELSE IF month \in {4, 6, 9, 11} THEN 30 ELSE 31

\* the days from the first of January of FirstYear to date d
RECURSIVE DaysBeforeYear(_)
DaysBeforeYear(year) ==
    IF year <= FirstYear THEN 0
    ELSE (IF IsLeap(year - 1) THEN 366 ELSE 365) + DaysBeforeYear(year - 1)

RECURSIVE DaysBeforeMonth(_, _)
DaysBeforeMonth(year, month) ==
    IF month <= 1 THEN 0
    ELSE monthrange(year, month - 1) + DaysBeforeMonth(year, month - 1)

Ordinal(d) == DaysBeforeYear(d.year) + DaysBeforeMonth(d.year, d.month) + d.day

\* (b - a).days
DaysBetween(a, b) == Ordinal(b) - Ordinal(a)

Abs(v) == IF v < 0 THEN -v ELSE v

\* a query object: the method that built it, the percentile it asks for (in
\* thousandths, 0 when none), the month it restricts Obs.time to (0 when
\* none) and the year interval it divides by (0 when none)
Query(built_by, percentile, month, yr_interval) ==
    [type |-> "Query", built_by |-> built_by, percentile |-> percentile,
     month |-> month, yr_interval |-> yr_interval]

NoWorkflow ==
    [constructed |-> FALSE, class |-> "none", start_time |-> DateTime(0, 0, 0),
     end_time |-> DateTime(0, 0, 0), month |-> 0, total_days |-> 0,
     yr_interval |-> 0, days_in_month |-> 0]

\* the attributes the three constructors assign
Workflow(class, start_time, end_time, month, total_days, yr_interval, days_in_month) ==
    [constructed |-> TRUE, class |-> class, start_time |-> start_time,
     end_time |-> end_time, month |-> month, total_days |-> total_days,
     yr_interval |-> yr_interval, days_in_month |-> days_in_month]

\* WorkflowMSC.__init__, with a connection string create_engine accepts
WorkflowMSC_init(start_time, end_time, month) ==
    IF month > 12 \/ month < 1 THEN Raise("ValueError", <<"line38">>)
    ELSE Return(Workflow("WorkflowMSC", start_time, end_time, month, 0, 0, 0), <<>>)

\* workflow_tools.__init__ of QueryMSC.py, the same lines
workflow_tools_init(start_time, end_time, month) ==
    IF month > 12 \/ month < 1 THEN Raise("ValueError", <<"line38">>)
    ELSE Return(Workflow("workflow_tools", start_time, end_time, month, 0, 0, 0), <<>>)

\* mutant: month 0 is let through
safe_month_from_zero(month) ==
    IF month > 12 \/ month < 0 THEN Raise("ValueError", <<"safe_month">>)
    ELSE Return(month, <<>>)

\* WorkflowTools.safe_month
safe_month(month) ==
    IF month > 12 \/ month < 1 THEN Raise("ValueError", <<"safe_month">>)
    ELSE Return(month, <<>>)

\* WorkflowTools.annual_safe_year
annual_safe_year(start_time, end_time, yr_interval) ==
    IF ~Before(start_time, end_time) THEN Raise("ValueError", <<"annual_safe_year">>)
    ELSE Return(yr_interval, <<>>)

\* WorkflowTools.__init__: line 32 safe_month, line 36 total_days, lines 39-40
\* yr_interval, line 42 days_in_month, and line 63, whose
\* self.total_days/self.yr_interval is a division of two floats
WorkflowTools_init(start_time, end_time, month) ==
    LET m == safe_month(month)
    IN  IF m.status = "raise" THEN m
        ELSE LET total_days == DaysBetween(start_time, end_time)
                 y == annual_safe_year(start_time, end_time,
                                       end_time.year - start_time.year)
             IN  IF y.status = "raise" THEN y
                 ELSE LET days_in_month ==
                              monthrange(start_time.year, month) * y.value
                      IN  IF y.value = 0
                          THEN Raise("ZeroDivisionError", <<"line63">>)
                          ELSE Return(Workflow("WorkflowTools", start_time, end_time,
                                               m.value, total_days, y.value,
                                               days_in_month), <<>>)

\* WorkflowMSC.annual_rain and workflow_tools.annual_rain
annual_rain(self) ==
    LET yr_interval == Abs(self.end_time.year - self.start_time.year)
    IN  IF yr_interval < 1 THEN Raise("ValueError", <<"annual_rain">>)
        ELSE Return(Query("annual_rain", 0, 0, yr_interval), <<>>)

\* WorkflowMSC.design_temp_25
design_temp_25(self) ==
    IF self.month > 12 \/ self.month < 1 THEN Raise("ValueError", <<"line123">>)
    ELSE Return(Query("design_temp_25", 25, self.month, 0), <<>>)

\* the names line 157 of WorkflowMSC.py can see: the locals of design_temp_1,
\* and the globals of the module (its imports, the names of pycds, the class)
NamesAtLine157 ==
    {"self", "datetime", "calendar", "create_engine", "sessionmaker", "and_",
     "or_", "func", "np", "pd", "pgpasslib", "Obs", "History", "Variable",
     "Station", "Network", "WorkflowMSC"}

\* WorkflowMSC.design_temp_1: line 157 reads the name month, not self.month,
\* and line 174 compares the month of Obs.time with 1
design_temp_1(self) ==
    IF "month" \notin NamesAtLine157 THEN Raise("NameError", <<"line157">>)
    ELSE Return(Query("design_temp_1", 10, 1, 0), <<>>)

\* WorkflowTools.query_design_temp_percentile, query_design_temp_dry and
\* query_design_temp_wet: safe_month(month), then the query
query_design_temp(self, method, percentile, month) ==
    LET m == safe_month(month)
    IN  IF m.status = "raise" THEN m
        ELSE Return(Query(method, percentile, m.value, 0), <<>>)

\* mutant: the year of end_time is counted too
RECURSIVE SumOfDays_inclusive(_, _, _)
SumOfDays_inclusive(year, stop, month) ==
    IF year > stop THEN 0
    ELSE monthrange(year, month) + SumOfDays_inclusive(year + 1, stop, month)

\* sum([monthrange(year, month)[1] for year in range(year, stop)])
RECURSIVE SumOfDays(_, _, _)
SumOfDays(year, stop, month) ==
    IF year >= stop THEN 0
    ELSE monthrange(year, month) + SumOfDays(year + 1, stop, month)

\* query_helpers.days_in_month
days_in_month(start_time, end_time) ==
    IF start_time.month = end_time.month
    THEN Return(PyFloat(SumOfDays(start_time.year, end_time.year, start_time.month)),
                <<>>)
    ELSE Raise("ValueError", <<"days_in_month">>)

\* query_helpers.hours_in_month
hours_in_month(start_time, end_time) ==
    LET d == days_in_month(start_time, end_time)
    IN  IF d.status = "raise" THEN d
        ELSE Return(PyFloat(d.value.val * 24), <<>>)

InitWorkflow ==
    /\ est = NoWorkflow
    /\ series = <<>>
    /\ frame = EmptyFrame
    /\ op = "none"
    /\ args = <<>>
    /\ result = NoCall
    /\ last = NoCall
    /\ threads = <<>>

\* the instance after a constructor call: the one built, or none
Built(r) == IF r.status = "return" THEN r.value ELSE NoWorkflow

\* a run builds one instance, or calls one helper function
ConstructWorkflowMSC ==
    /\ op = "none"
    /\ \E start_time \in Dates, end_time \in Dates, month \in MonthArgs :
          /\ op' = "WorkflowMSC"
          /\ args' = <<start_time, end_time, month>>
          /\ result' = WorkflowMSC_init(start_time, end_time, month)
    /\ est' = Built(result')
    /\ UNCHANGED <<series, frame, last, threads>>

Construct_workflow_tools ==
    /\ op = "none"
    /\ \E start_time \in Dates, end_time \in Dates, month \in MonthArgs :
          /\ op' = "workflow_tools"
          /\ args' = <<start_time, end_time, month>>
          /\ result' = workflow_tools_init(start_time, end_time, month)
    /\ est' = Built(result')
    /\ UNCHANGED <<series, frame, last, threads>>

ConstructWorkflowTools ==
    /\ op = "none"
    /\ \E start_time \in Dates, end_time \in Dates, month \in MonthArgs :
          /\ op' = "WorkflowTools"
          /\ args' = <<start_time, end_time, month>>
          /\ result' = WorkflowTools_init(start_time, end_time, month)
    /\ est' = Built(result')
    /\ UNCHANGED <<series, frame, last, threads>>

CallAnnualRain ==
    /\ est.class \in {"WorkflowMSC", "workflow_tools"}
    /\ op' = "annual_rain"
    /\ args' = <<>>
    /\ result' = annual_rain(est)
    /\ UNCHANGED <<est, series, frame, last, threads>>

CallDesignTemp25 ==
    /\ est.class = "WorkflowMSC"
    /\ op' = "design_temp_25"
    /\ args' = <<>>
    /\ result' = design_temp_25(est)
    /\ UNCHANGED <<est, series, frame, last, threads>>

CallDesignTemp1 ==
    /\ est.class = "WorkflowMSC"
    /\ op' = "design_temp_1"
    /\ args' = <<>>
    /\ result' = design_temp_1(est)
    /\ UNCHANGED <<est, series, frame, last, threads>>

\* query_design_temp_percentile(session, 0.01, month),
\* query_design_temp_dry(session, month) and query_design_temp_wet(session, month)
CallQueryDesignTemp ==
    /\ est.class = "WorkflowTools"
    /\ \E method \in {"query_design_temp_percentile", "query_design_temp_dry",
                      "query_design_temp_wet"}, month \in MonthArgs :
          /\ op' = method
          /\ args' = <<month>>
          /\ result' = query_design_temp(est, method,
                           IF method = "query_design_temp_percentile" THEN 10 ELSE 25,
                           month)
    /\ UNCHANGED <<est, series, frame, last, threads>>

CallDaysInMonth ==
    /\ op = "none"
    /\ \E start_time \in Dates, end_time \in Dates :
          /\ op' = "days_in_month"
          /\ args' = <<start_time, end_time>>
          /\ result' = days_in_month(start_time, end_time)
    /\ UNCHANGED <<est, series, frame, last, threads>>

CallHoursInMonth ==
    /\ op = "none"
    /\ \E start_time \in Dates, end_time \in Dates :
          /\ op' = "hours_in_month"
          /\ args' = <<start_time, end_time>>
          /\ result' = hours_in_month(start_time, end_time)
    /\ UNCHANGED <<est, series, frame, last, threads>>

NextWorkflow ==
    \/ ConstructWorkflowMSC
    \/ Construct_workflow_tools
    \/ ConstructWorkflowTools
    \/ CallAnnualRain
    \/ CallDesignTemp25
    \/ CallDesignTemp1
    \/ CallQueryDesignTemp
    \/ CallDaysInMonth
    \/ CallHoursInMonth

SpecWorkflow == InitWorkflow /\ [][NextWorkflow]_vars

----------------------------------------------------------------------------
(* Properties of the constructor and of fit / get_design_value *)

C2_FitSentinelBelowMinFit ==
    op = "fit" =>
        IF Len(args[1]) < est.min_fit.val
        THEN result.status = "return" /\ result.value = <<NaN, NaN>>
        ELSE \/ result.status = "raise"
             \/ /\ result.status = "return"
                /\ result.value[1].k = "fin" /\ result.value[2].k = "fin"

\* a sample of exactly min_fit values was fitted
C2_Witness ==
    /\ op = "fit" /\ Len(args[1]) = est.min_fit.val
    /\ result.status = "return" /\ result.value[2].k = "fin"

\* C3: get_design_value raises ValueError for every alpha <= 0, whatever xi
\* and the return period are.
C3_DesignValueRejectsNonPositiveAlpha ==
    (op = "get_design_value" /\ args[2].k = "fin" /\ args[2].a <= 0) =>
        result.status = "raise" /\ result.exc = "ValueError"

\* alpha = 0 exactly was rejected
C3_Witness ==
    /\ op = "get_design_value" /\ args[2] = Fin(0)
    /\ result.status = "raise"

----------------------------------------------------------------------------
(* Properties of get_fit_transform *)

\* C4 as claimed: when fit returned the undefined pair, get_fit_transform
\* returns the sentinel without invoking get_design_value.
C4_ShortCircuitsOnSentinel ==
    (op = "get_fit_transform" /\ Len(args[1]) < est.min_fit.val) =>
        /\ result.status = "return" /\ IsNaN(result.value)
        /\ \A i \in DOMAIN result.calls : result.calls[i] # "get_design_value"

\* C4: get_fit_transform composes fit then get_design_value; when fit returned
\* the undefined pair it still invokes get_design_value, with (nan, nan), and
\* returns the nan that call returns.
C4_ComposesFitThenDesignValue ==
    (op = "get_fit_transform" /\ Len(args[1]) < est.min_fit.val) =>
        /\ result.status = "return" /\ IsNaN(result.value)
        /\ result.calls = <<"fit", "get_design_value">>

\* an under-sampled Series went through both calls
C4_Witness ==
    /\ op = "get_fit_transform" /\ Len(args[1]) = 2 /\ est.min_fit.val = 3
    /\ result.calls = <<"fit", "get_design_value">> /\ IsNaN(result.value)

AllEqual(s) == \A i, j \in DOMAIN s : s[i] = s[j]

\* C5: for a sample with N >= min_fit whose values are all identical,
\* get_fit_transform returns the undefined sentinel and does not raise.
C5_ZeroSpreadYieldsSentinel ==
    (op = "get_fit_transform" /\ Len(args[1]) >= est.min_fit.val /\ AllEqual(args[1])) =>
        result.status = "return" /\ IsNaN(result.value)

\* C6: for every sample with N < min_fit, get_fit_transform completes without
\* raising and its result is nan.
C6_InsufficientDataIsNotAnError ==
    (op = "get_fit_transform" /\ Len(args[1]) < est.min_fit.val) =>
        result.status = "return" /\ result.exc = "none" /\ IsNaN(result.value)

\* the empty Series, under the default min_fit, gave nan
C6_Witness ==
    /\ op = "get_fit_transform" /\ args[1] = <<>> /\ est.min_fit = PyInt(10)
    /\ result.status = "return" /\ IsNaN(result.value)

----------------------------------------------------------------------------
(* Properties of fit_transform *)

\* the last call was fit_transform on a DataFrame, both columns named present
TransformCalled ==
    /\ op = "fit_transform" /\ args[1].type = "DataFrame"
    /\ args[2] = StationId /\ args[3] = RainfallRate
TransformReturned == TransformCalled /\ result.status = "return"

InRows == args[1].rows
OutRows == result.value.rows

\* the cells of a row: its station, its value, and in a returned table the
\* derived value the join appended
StationOf(row) == row[1]
ValueOf(row) == row[2]
DvalOf(row) == row[Len(row)]

InKeys == {StationOf(InRows[i]) : i \in DOMAIN InRows}

\* the input rows of station g, and their values as a sample
RowsOfStation(g) == SelectSeq(InRows, LAMBDA r : StationOf(r) = g)
SampleOfStation(g) ==
    [i \in DOMAIN RowsOfStation(g) |-> ValueOf(RowsOfStation(g)[i])]

\* group g has fewer than min_fit rows
UnderSampled(g) == Len(RowsOfStation(g)) < est.min_fit.val

\* what get_fit_transform yields on the values of group g alone
Own(g) == get_fit_transform(est, SampleOfStation(g))

\* the table mixes groups with N >= min_fit and groups with N < min_fit
Mixed ==
    /\ \E g \in InKeys : UnderSampled(g)
    /\ \E g \in InKeys : ~UnderSampled(g)

\* C7 as claimed: in a returned table that mixes under-sampled and sufficiently
\* sampled groups, every row of an under-sampled group carries nan and every
\* row of a sufficiently sampled group carries a numeric design value.
C7_SufficientGroupsAreNumeric ==
    (TransformReturned /\ Mixed) =>
        \A i \in DOMAIN OutRows :
            IF UnderSampled(StationOf(OutRows[i]))
            THEN IsNaN(DvalOf(OutRows[i]))
            ELSE ~IsNaN(DvalOf(OutRows[i]))

\* C7: in a returned table, every row of an under-sampled group carries nan and
\* every row of a sufficiently sampled group carries what get_fit_transform
\* yields on that group's own values (a number, or nan where the logarithm's
\* argument is not positive); the call raises only when the fit of some
\* sufficiently sampled group raises, never because of an under-sampled group.
C7_MixedGroupsCarryOwnValue ==
    TransformCalled =>
        /\ result.status = "return" =>
              \A i \in DOMAIN OutRows :
                  LET g == StationOf(OutRows[i])
                  IN  /\ UnderSampled(g) => IsNaN(DvalOf(OutRows[i]))
                      /\ ~UnderSampled(g) =>
                            /\ Own(g).status = "return"
                            /\ DvalOf(OutRows[i]) = Own(g).value
        /\ result.status = "raise" =>
              \E g \in InKeys : ~UnderSampled(g) /\ Own(g).status = "raise"

\* one call returned a table with a numeric group and an under-sampled group
C7_Witness ==
    /\ TransformReturned /\ Mixed
    /\ \E i, j \in DOMAIN OutRows :
          /\ ~UnderSampled(StationOf(OutRows[i]))
          /\ DvalOf(OutRows[i]).k = "quantile"
          /\ UnderSampled(StationOf(OutRows[j]))
          /\ IsNaN(DvalOf(OutRows[j]))

\* C8: the returned table has as many rows as the input, row i of the output
\* is row i of the input, and rows with the same station carry the same
\* derived value.
C8_RowsPreservedAndGroupValueShared ==
    TransformReturned =>
        /\ Len(OutRows) = Len(InRows)
        /\ \A i \in DOMAIN OutRows :
              /\ StationOf(OutRows[i]) = StationOf(InRows[i])
              /\ ValueOf(OutRows[i]) = ValueOf(InRows[i])
        /\ \A i, j \in DOMAIN OutRows :
              StationOf(OutRows[i]) = StationOf(OutRows[j]) =>
                  DvalOf(OutRows[i]) = DvalOf(OutRows[j])

\* a returned table of interleaved stations, the later station first, whose
\* two groups carry different values
C8_Witness ==
    /\ TransformReturned /\ Len(OutRows) = 4
    /\ StationOf(OutRows[1]) = 2 /\ StationOf(OutRows[2]) = 1
    /\ StationOf(OutRows[3]) = 2 /\ StationOf(OutRows[4]) = 2
    /\ DvalOf(OutRows[1]) # DvalOf(OutRows[2])

\* the outcome of a transform for the rows of group g: the exception, or the
\* derived value those rows carry
GroupOutcome(r, g) ==
    IF r.status = "raise" THEN [status |-> "raise", value |-> NaN]
    ELSE [status |-> "return",
          value |-> DvalOf(r.value.rows[CHOOSE i \in DOMAIN r.value.rows :
                                            StationOf(r.value.rows[i]) = g])]

\* C9: the outcome for the rows of a group is the same in the table at hand and
\* in the table that holds that group alone: no other group changes or
\* suppresses it.
C9_GroupsDoNotInterfere ==
    TransformCalled =>
        \A g \in InKeys :
            GroupOutcome(result, g) =
                GroupOutcome(fit_transform(est,
                                 DataFrame(args[1].columns, RowsOfStation(g)),
                                 StationId, RainfallRate), g)

\* C10: when the computation of one group fails, the failure is confined to
\* that group: the rows of every other group, whose own computation succeeds,
\* still receive that group's value.
C10_FailureIsLocalToGroup ==
    (TransformCalled /\ \E f \in InKeys : Own(f).status = "raise") =>
        \A g \in InKeys :
            Own(g).status = "return" =>
                /\ result.status = "return"
                /\ \A i \in DOMAIN InRows :
                      StationOf(InRows[i]) = g =>
                          DvalOf(OutRows[i]) = Own(g).value

----------------------------------------------------------------------------
(* Properties of fit_transform: its input and its output columns *)

\* C11: fit_transform never changes the table it is given: once the call has
\* returned or raised, the input holds the same columns, rows and cells as at
\* the call; a returned table is another table, with a column the input has not.
C11_InputNotMutated ==
    (op = "fit_transform" /\ args[1].type = "DataFrame") =>
        /\ frame = args[1]
        /\ result.status = "return" =>
              /\ result.value # frame
              /\ Len(result.value.columns) > Len(frame.columns)

\* a returned transform whose fit sorted, in place, the values of a group that
\* stand unsorted in the table
C11_Witness ==
    /\ TransformReturned
    /\ \E g \in InKeys :
          ArrayAfterFit(est, SampleOfStation(g)) # SampleOfStation(g)
    /\ frame = args[1]

\* the first argument is not a table, or a column argument names no column
NotATable == op = "fit_transform" /\ args[1].type # "DataFrame"
NoSuchColumn ==
    /\ op = "fit_transform" /\ args[1].type = "DataFrame"
    /\ ~(HasColumn(args[1].columns, args[2]) /\ HasColumn(args[1].columns, args[3]))

\* C12 as claimed: a first argument that is not a table and a column name that
\* does not exist both fail with one and the same invalid-input error class,
\* the one the type check raises, and produce no table.
C12_InvalidInputOneErrorClass ==
    (NotATable \/ NoSuchColumn) =>
        result.status = "raise" /\ result.exc = "TypeError"

\* C12: both kinds of bad input fail and produce no table, with different
\* error classes: TypeError when the first argument is not a DataFrame,
\* KeyError when station_variable or variable names no column of it.
C12_InvalidInputRaises ==
    /\ NotATable => result.status = "raise" /\ result.exc = "TypeError"
    /\ NoSuchColumn => result.status = "raise" /\ result.exc = "KeyError"

\* a table with a row was transformed on a value column it does not have
C12_Witness ==
    /\ NoSuchColumn /\ Len(args[1].rows) = 1
    /\ args[2] = StationId /\ args[3] = Missing
    /\ result.status = "raise" /\ result.exc = "KeyError"

\* C13: a returned table holds every column of the input, in place and with
\* every cell unchanged, and exactly one column more, the last, labelled with
\* the value column's label followed by "_dval"; so too when the input has a
\* column of that label already, which the output then holds beside the new one.
C13_OneDerivedColumnAdded ==
    TransformReturned =>
        LET in == args[1]
            out == result.value
        IN  /\ Len(out.columns) = Len(in.columns) + 1
            /\ \A j \in DOMAIN in.columns : out.columns[j] = in.columns[j]
            /\ out.columns[Len(out.columns)] = <<"rainfall_rate", "_dval">>
            /\ Len(out.rows) = Len(in.rows)
            /\ \A i \in DOMAIN out.rows :
                  /\ Len(out.rows[i]) = Len(out.columns)
                  /\ \A j \in DOMAIN in.rows[i] : out.rows[i][j] = in.rows[i][j]

\* a table that came out of a transform, and has the derived column, was
\* transformed again
C13_Witness ==
    /\ TransformReturned
    /\ args[1].columns = <<StationId, RainfallRate, <<"rainfall_rate", "_dval">> >>
    /\ Len(args[1].rows) = 2
    /\ Len(result.value.columns) = 4

----------------------------------------------------------------------------
(* Properties of repeated and concurrent calls *)

\* C14: fit_transform called twice in a row with the same estimator, the same
\* column arguments and the same table has the same outcome both times: the
\* same derived value in every row, or the same exception.
C14_RepeatedTransformAgrees ==
    (TransformCalled /\ last.status # "none") =>
        /\ result.status = last.status
        /\ result.exc = last.exc
        /\ result.status = "return" =>
              /\ Len(OutRows) = Len(last.value.rows)
              /\ \A i \in DOMAIN OutRows :
                    DvalOf(OutRows[i]) = DvalOf(last.value.rows[i])

\* a table of two stations was transformed twice and came back with the same
\* finite value for one station and nan for the other
C14_Witness ==
    /\ TransformReturned /\ last.status = "return"
    /\ \E i, j \in DOMAIN OutRows :
          /\ DvalOf(OutRows[i]).k = "quantile"
          /\ DvalOf(last.value.rows[i]) = DvalOf(OutRows[i])
          /\ IsNaN(DvalOf(OutRows[j]))

\* the methods of the estimator
Methods == {"fit", "get_design_value", "get_fit_transform", "fit_transform"}

\* C16: no call of fit, get_design_value, get_fit_transform or fit_transform
\* changes return_period or min_fit, and every instance there is has
\* return_period >= 1 and min_fit >= 2.
C16_ConfigurationImmutable ==
    /\ [](est.constructed => est.return_period.val >= 1 /\ est.min_fit.val >= 2)
    /\ [][op' \in Methods => est' = est]_vars

\* an instance built with the smallest legal configuration has gone through
\* two transforms of a table and still has it
C16_Witness ==
    /\ TransformCalled /\ last.status # "none" /\ Len(InRows) = 4
    /\ est.return_period = PyInt(1) /\ est.min_fit = PyInt(2)

\* the instance as it was constructed, and the outcome of the call of thread t
\* when nothing else runs
Constructed == result.value
Alone(t) ==
    CASE threads[t].method = "fit" -> fit(Constructed, SampleOf(t))
      [] threads[t].method = "get_fit_transform" ->
            get_fit_transform(Constructed, SampleOf(t))
      [] threads[t].method = "get_design_value" ->
            get_design_value(Constructed, threads[t].xi, threads[t].alpha)

AllDone == \A t \in Stations : threads[t].pc = "done"
AllPartitions == \A t \in Stations : threads[t].method = "get_fit_transform"

\* C15: under every interleaving of fit, get_design_value and
\* get_fit_transform calls on one instance, each on values of its own, every
\* call ends with the outcome it has when run alone, and no call changes the
\* instance the others read; when the calls are the get_fit_transform calls
\* on the groups of a table, in whatever order they ran, joining their values
\* gives the table fit_transform returns, and one of them raises exactly when
\* fit_transform raises.
C15_ConcurrentCallsAgree ==
    /\ est = Constructed
    /\ \A t \in Stations :
          threads[t].pc = "done" => threads[t].result = Alone(t)
    /\ (AllDone /\ AllPartitions) =>
          LET keys == GroupKeys(frame.rows, 1)
              whole == fit_transform(Constructed, frame, StationId, RainfallRate)
          IN  IF \E g \in keys : threads[g].result.status = "raise"
              THEN whole.status = "raise"
              ELSE /\ whole.status = "return"
                   /\ whole.value.rows =
                        Join(frame.rows, 1, [g \in keys |-> threads[g].result.value])

\* a get_fit_transform ran to its end, with a finite design value, while a
\* get_design_value had passed line 85 and had not yet read return_period
C15_Witness ==
    /\ threads[1].method = "get_design_value" /\ threads[1].pc = "line89"
    /\ threads[2].method = "get_fit_transform"
    /\ threads[2].pc = "done" /\ threads[2].result.status = "return"
    /\ threads[2].result.value.k = "quantile"
    /\ threads[2].result = Alone(2)

----------------------------------------------------------------------------
(* Properties of the design-value expression and of the fitted parameters *)

\* the last call was get_design_value with finite xi and alpha > 0
DesignValueCalled ==
    /\ op = "get_design_value"
    /\ args[1].k = "fin" /\ args[2].k = "fin" /\ args[2].a > 0

\* where simp lies for the arguments of that call
SimpOfCall == SimpClass(est.return_period.val, Div(args[1].a * Scale, args[2].a))

\* C18 as claimed: whenever a logarithm of the design-value expression is given
\* an argument that is not positive (simp = 0 for the inner one, simp >= 1 for
\* the outer one), get_design_value returns nan and does not raise.
C18_UndefinedYieldsSentinel ==
    (DesignValueCalled /\ SimpOfCall # "inside") =>
        result.status = "return" /\ IsNaN(result.value)

\* C18: get_design_value does not raise for alpha > 0.  Where the outer
\* logarithm is given a negative argument (simp > 1) it returns nan, the value
\* an under-sampled fit leads to; where a logarithm is given zero it returns an
\* infinity, not the sentinel: -inf for simp = 0, +inf for simp = 1.
C18_UndefinedIsNanOrInfinite ==
    DesignValueCalled =>
        /\ result.status = "return"
        /\ SimpOfCall = "above" =>
              /\ IsNaN(result.value)
              /\ result.value = get_fit_transform(est, <<>>).value
        /\ SimpOfCall = "zero" => result.value = NInf
        /\ SimpOfCall = "one" => result.value = PInf
        /\ SimpOfCall = "inside" => result.value.k = "quantile"

\* xi/alpha = 0 lies below log(log(50)): simp > 1, and the call returned nan
C18_Witness ==
    /\ DesignValueCalled /\ est.return_period = PyInt(50)
    /\ args = <<Fin(0), Fin(Scale)>>
    /\ result.status = "return" /\ IsNaN(result.value)

\* the j-th smallest value of sample x
OrderStat(x, j) ==
    CHOOSE v \in {x[i] : i \in DOMAIN x} :
        /\ Cardinality({i \in DOMAIN x : x[i] < v}) < j
        /\ Cardinality({i \in DOMAIN x : x[i] <= v}) >= j

\* n * b0 and n * (n - 1) * b1, for the probability-weighted moments b0, b1
RECURSIVE PwmSum(_, _, _)
PwmSum(x, j, weighted) ==
    IF j > Len(x) THEN 0
    ELSE (IF weighted THEN j - 1 ELSE 1) * OrderStat(x, j) + PwmSum(x, j + 1, weighted)

\* L1 = b0 and L2 = 2 b1 - b0 of sample x, Len(x) >= 2
SampleL1(x) == Div(PwmSum(x, 1, FALSE) * Scale, Len(x))
SampleL2(x) ==
    Div((2 * PwmSum(x, 1, TRUE) - (Len(x) - 1) * PwmSum(x, 1, FALSE)) * Scale,
        Len(x) * (Len(x) - 1))

\* a and b differ by at most two units of the last decimal
Close(a, b) == a - b <= 2 /\ b - a <= 2

\* C19: for every sample with N >= min_fit, fit returns (xi, alpha) with
\* alpha = L2 / ln 2 and xi = L1 - gamma * alpha, L1 and L2 being the first two
\* sample L-moments, from the unbiased probability-weighted-moment estimator
\* on the sorted sample.
C19_FitReturnsLMomentParameters ==
    (op = "fit" /\ Len(args[1]) >= est.min_fit.val) =>
        /\ result.status = "return"
        /\ LET alpha == Div(SampleL2(args[1]) * Scale, Ln2)
               xi == SampleL1(args[1]) - Div(EulerGamma * alpha, Scale)
           IN  /\ result.value[1].k = "fin" /\ Close(result.value[1].a, xi)
               /\ result.value[2].k = "fin" /\ Close(result.value[2].a, alpha)

\* a design value was computed from finite xi and alpha > 0: by a direct call,
\* or by get_fit_transform from the pair fit returned
DesignInputs ==
    IF op = "get_design_value" THEN <<args[1], args[2]>>
    ELSE fit(est, args[1]).value
DesignCase ==
    /\ \/ op = "get_design_value"
       \/ op = "get_fit_transform" /\ result.status = "return"
    /\ DesignInputs[1].k = "fin" /\ DesignInputs[2].k = "fin"
    /\ DesignInputs[2].a > 0
XiOfCase == DesignInputs[1].a
AlphaOfCase == DesignInputs[2].a

\* F(d) = exp(-exp(-(d - xi) / alpha)), the Gumbel distribution function
GumbelCdf(xi, alpha, d) == ExpNegExp(Ratio(xi - d, alpha))

\* C17: for alpha > 0 the value returned is xi - alpha ln(-ln(simp)) with
\* f_r = 1 / return_period and simp = (1 - f_r) + exp(-exp(xi / alpha)), the
\* added term included: the value d is the closed form in (xi, alpha,
\* return_period); for return_period >= 2 it is nan exactly when
\* xi / alpha < ln(ln(return_period)), where simp > 1, and otherwise it solves
\* F(d) = (1 - f_r) + F(0), to three decimals.
C17_DesignValueFormula ==
    DesignCase =>
        LET T == est.return_period.val
            d == result.value
        IN  /\ result.status = "return"
            /\ d.k = "quantile" => d = Quantile(XiOfCase, AlphaOfCase, T)
            /\ T >= 2 =>
                  /\ IsNaN(d) <=> 10 * Ratio(XiOfCase, AlphaOfCase) < LogLog(T)
                  /\ ~IsNaN(d) =>
                        LET lhs == GumbelCdf(XiOfCase, AlphaOfCase, Evaluate(d))
                            rhs == (Scale - Div(Scale, T))
                                   + GumbelCdf(XiOfCase, AlphaOfCase, 0)
                        IN  lhs - rhs <= 5 /\ rhs - lhs <= 5

\* a direct call with xi / alpha = 0 and return period 2, where the added term
\* exp(-exp(0)) = 0.37 is far from nothing, returned a finite value
C17_Witness ==
    /\ op = "get_design_value" /\ args = <<Fin(0), Fin(Scale)>>
    /\ est.return_period = PyInt(2)
    /\ result.status = "return" /\ result.value.k = "quantile"

\* the return periods compared, and the design value of the case at hand under
\* return period T
ComparedPeriods == {2, 5, 10, 50, 100}
ValueAt(T) ==
    get_design_value([est EXCEPT !.return_period = PyInt(T)],
                     DesignInputs[1], DesignInputs[2]).value

\* f < g as floats compare: false when either is nan
Less(f, g) == f.k = "quantile" /\ g.k = "quantile" /\ Evaluate(f) < Evaluate(g)

\* C20 as claimed: for fixed (xi, alpha) with alpha > 0, the design value is
\* strictly increasing in return_period over the return periods >= 2.
C20_StrictlyIncreasing ==
    DesignCase =>
        \A T1, T2 \in ComparedPeriods :
            T1 < T2 => Less(ValueAt(T1), ValueAt(T2))

\* C20: for fixed (xi, alpha) with alpha > 0 and return periods 2 <= T1 < T2,
\* the design value at T2 is greater than at T1 when it is defined at T2, that
\* is when xi / alpha >= ln(ln(T2)); for a smaller xi / alpha it is nan at T2.
C20_IncreasingWhereDefined ==
    DesignCase =>
        \A T1, T2 \in ComparedPeriods :
            T1 < T2 =>
                IF 10 * Ratio(XiOfCase, AlphaOfCase) >= LogLog(T2)
                THEN Less(ValueAt(T1), ValueAt(T2))
                ELSE IsNaN(ValueAt(T2))

\* a fitted pair whose design value is defined at every compared return period
\* and grows from 2 to 100
C20_Witness ==
    /\ op = "get_fit_transform" /\ DesignCase
    /\ 10 * Ratio(XiOfCase, AlphaOfCase) >= LogLog(100)
    /\ Less(ValueAt(2), ValueAt(100))

----------------------------------------------------------------------------
(* Properties of the order of the values and of the groups *)

\* s with its entries rearranged by the permutation p of its indices
Permuted(s, p) == [i \in DOMAIN s |-> s[p[i]]]

\* the last call, made again on the sample x
SampleCall(x) ==
    IF op = "fit" THEN fit(est, x) ELSE get_fit_transform(est, x)

\* C21: the order of a sample does not matter: fit and get_fit_transform give
\* the same outcome for every permutation of the values they were called on,
\* and fit_transform gives the same outcome, with the same derived value for
\* every group, for every permutation of the rows of its table.
C21_OrderIrrelevant ==
    /\ op \in {"fit", "get_fit_transform"} =>
          \A p \in Permutations(DOMAIN args[1]) :
              SampleCall(Permuted(args[1], p)) = result
    /\ TransformCalled =>
          \A p \in Permutations(DOMAIN InRows) :
              LET r == fit_transform(est,
                           DataFrame(args[1].columns, Permuted(InRows, p)),
                           StationId, RainfallRate)
              IN  /\ r.status = result.status /\ r.exc = result.exc
                  /\ \A g \in InKeys : GroupOutcome(r, g) = GroupOutcome(result, g)

\* a returned table of four rows whose first station has three values that
\* are not in ascending order, fitted to a number
C21_Witness ==
    /\ TransformReturned /\ Len(InRows) = 4
    /\ \E g \in InKeys :
          /\ Len(SampleOfStation(g)) = 3
          /\ SampleOfStation(g) # Sorted(SampleOfStation(g))
          /\ Own(g).status = "return" /\ Own(g).value.k = "quantile"

\* the groups the apply of the last call processed, in the order it took them
Processed == result.calls

\* the group whose call raised
FailedGroup == Processed[Len(Processed)]

\* the row at which station g occurs first in the input
FirstRowOf(g) ==
    CHOOSE i \in DOMAIN InRows :
        StationOf(InRows[i]) = g /\ \A j \in 1..(i - 1) : StationOf(InRows[j]) # g

\* C22 as claimed: the groups are processed in the order in which their keys
\* first occur in the table, and when several groups would fail the failure
\* raised is that of the group whose key occurs first.
C22_InsertionOrder ==
    TransformCalled =>
        /\ \A i, j \in DOMAIN Processed :
              i < j => FirstRowOf(Processed[i]) < FirstRowOf(Processed[j])
        /\ result.status = "raise" =>
              \A g \in InKeys :
                  Own(g).status = "raise" => FirstRowOf(FailedGroup) <= FirstRowOf(g)

\* C22: the groups are processed in ascending order of their keys, whatever
\* the order of the rows; a call that returns has processed every group, and
\* a call that raises has processed the groups up to the one with the smallest
\* key among those that fail, whose failure it raises.
C22_KeyOrder ==
    TransformCalled =>
        /\ \A i, j \in DOMAIN Processed : i < j => Processed[i] < Processed[j]
        /\ result.status = "return" =>
              {Processed[i] : i \in DOMAIN Processed} = InKeys
        /\ result.status = "raise" =>
              /\ Own(FailedGroup).status = "raise"
              /\ \A g \in InKeys : Own(g).status = "raise" => FailedGroup <= g
              /\ {Processed[i] : i \in DOMAIN Processed} =
                     {g \in InKeys : g <= FailedGroup}

\* two groups fail, the one that occurs first in the table has the larger
\* key, and the failure raised is that of the other
C22_Witness ==
    /\ TransformCalled /\ result.status = "raise"
    /\ \E g \in InKeys :
          /\ Own(g).status = "raise"
          /\ FirstRowOf(g) = 1
          /\ FailedGroup < g

----------------------------------------------------------------------------
(* Properties of a call run line by line *)

\* the call the client made has ended
Finished == op # "none" /\ threads = <<>>

\* the outcome of that call, taken as a whole
Whole ==
    CASE op = "fit" -> fit(est, args[1])
      [] op = "get_fit_transform" -> get_fit_transform(est, args[1])
      [] op = "get_design_value" -> get_design_value(est, args[1], args[2])
      [] op = "fit_transform" -> fit_transform(est, args[1], args[2], args[3])

\* C23: every call of fit, get_design_value, get_fit_transform and
\* fit_transform on a finite sample or table, run line by line, comes to an
\* end: it returns a result or raises, the same as the call taken as a whole,
\* and no line blocks or is repeated without bound.
C23_EveryCallTerminates ==
    /\ [](Finished =>
            /\ result.status \in {"return", "raise"}
            /\ result.status = Whole.status
            /\ result.exc = Whole.exc
            /\ result.value = Whole.value)
    /\ (op # "none") ~> Finished

\* fit_transform returned a table of three rows after the apply had gone
\* through two groups
C23_Witness ==
    /\ Finished /\ op = "fit_transform" /\ result.status = "return"
    /\ Len(result.value.rows) = MaxStepRows
    /\ Cardinality(GroupKeys(args[1].rows, 1)) = 2

----------------------------------------------------------------------------
(* Properties of the workflow classes and of the helpers *)

Constructors == {"WorkflowMSC", "workflow_tools", "WorkflowTools"}
MonthQueries ==
    {"query_design_temp_percentile", "query_design_temp_dry", "query_design_temp_wet"}

ValidMonth(month) == month \in 1..12

\* the call raised at one of the month checks
RaisedAtMonthCheck ==
    /\ result.status = "raise" /\ result.exc = "ValueError"
    /\ result.calls \in {<<"line38">>, <<"safe_month">>}

\* C24: a constructor of WorkflowMSC, workflow_tools or WorkflowTools called
\* with month < 1 or month > 12 raises ValueError and yields no instance, a
\* month in 1..12 passes the month check (WorkflowMSC and workflow_tools then
\* yield an instance with that month); query_design_temp_percentile, _dry and
\* _wet raise ValueError for such a month argument, building no query, and
\* for a month in 1..12 return a query restricted to that month.
C24_InvalidMonthRejected ==
    /\ op \in Constructors =>
          IF ValidMonth(args[3])
          THEN /\ ~RaisedAtMonthCheck
               /\ op # "WorkflowTools" =>
                     /\ result.status = "return"
                     /\ est.constructed /\ est.month = args[3]
               /\ est.constructed => est.month = args[3]
          ELSE RaisedAtMonthCheck /\ ~est.constructed
    /\ op \in MonthQueries =>
          IF ValidMonth(args[1])
          THEN /\ result.status = "return"
               /\ result.value.type = "Query"
               /\ result.value.built_by = op /\ result.value.month = args[1]
          ELSE RaisedAtMonthCheck

\* an instance of WorkflowTools built with a valid month was asked for the wet
\* bulb query of month 13 and raised
C24_Witness ==
    /\ est.constructed /\ est.class = "WorkflowTools" /\ ValidMonth(est.month)
    /\ op = "query_design_temp_wet" /\ args[1] = 13
    /\ RaisedAtMonthCheck

\* end_time lies a year or more after start_time
AtLeastOneYear(start_time, end_time) ==
    ~Before(end_time,
            DateTime(start_time.year + 1, start_time.month, start_time.day))

\* C25 as claimed: annual_rain raises ValueError, building no query, whenever
\* the window from start_time to end_time is shorter than one year, and
\* returns a query whenever the window is a year or longer.
C25_AnnualRainNeedsOneYear ==
    op = "annual_rain" =>
        IF AtLeastOneYear(est.start_time, est.end_time)
        THEN result.status = "return" /\ result.value.type = "Query"
        ELSE result.status = "raise" /\ result.exc = "ValueError"

\* C26 as claimed: design_temp_1 returns a query for the 1st percentile
\* restricted to the month of the instance, as design_temp_25 does for the
\* 2.5th.
C26_DesignTemp1UsesInstanceMonth ==
    /\ op = "design_temp_1" =>
          /\ result.status = "return"
          /\ result.value.percentile = 10 /\ result.value.month = est.month
    /\ op = "design_temp_25" =>
          /\ result.status = "return"
          /\ result.value.percentile = 25 /\ result.value.month = est.month

\* C27 as claimed: WorkflowTools(start_time, end_time, month) raises
\* ValueError exactly when month is outside 1..12 or start_time is not
\* earlier than end_time, and yields an instance for every other input.
C27_ConstructionRaisesOnlyOnInvalid ==
    op = "WorkflowTools" =>
        IF ~ValidMonth(args[3]) \/ ~Before(args[1], args[2])
        THEN result.status = "raise" /\ result.exc = "ValueError"
        ELSE result.status = "return" /\ est.constructed

\* the days of month in the years first..(stop - 1), counted from the
\* calendar: the days the month has in a common year, and one more for
\* February in each leap year
DaysOverYears(first, stop, month) ==
    LET years == {y \in first..(stop - 1) : TRUE}
        common == IF month = 2 THEN 28
                  ELSE IF month \in {4, 6, 9, 11} THEN 30 ELSE 31
    IN  common * Cardinality(years)
          + (IF month = 2 THEN Cardinality({y \in years : IsLeap(y)}) ELSE 0)

\* C28: days_in_month(start_time, end_time) raises ValueError when the two
\* months differ; otherwise it returns the number of days that month has in
\* the years from start_time.year up to, and not including, end_time.year,
\* leap years counted, 0 when there is no such year; hours_in_month returns
\* 24 times that, and raises when days_in_month does.
C28_DaysInMonthSumsOverYears ==
    op \in {"days_in_month", "hours_in_month"} =>
        IF args[1].month # args[2].month
        THEN result.status = "raise" /\ result.exc = "ValueError"
        ELSE /\ result.status = "return"
             /\ result.value =
                  PyFloat((IF op = "days_in_month" THEN 1 ELSE 24)
                            * DaysOverYears(args[1].year, args[2].year,
                                            args[1].month))

\* the hours of the Februaries of 1999 and 2000, one of them in a leap year
C28_Witness ==
    /\ op = "hours_in_month"
    /\ args[1] = DateTime(1999, 2, 1) /\ args[2] = DateTime(2001, 2, 28)
    /\ result.status = "return" /\ result.value.val = 24 * (28 + 29)

----------------------------------------------------------------------------
(* Properties of the order of the constructor's checks *)

\* what is wrong with a constructor argument: its type, its range, or nothing
Violation(a, least) ==
    IF a.type \notin {"int", "bool"} THEN "TypeError"
    ELSE IF a.val < least THEN "ValueError" ELSE "none"

\* C29: Gumbel(return_period, min_fit) reports the first violation in the
\* order return_period type, return_period range, min_fit type, min_fit
\* range: an invalid return_period is the one reported whatever min_fit is,
\* min_fit is reported only when return_period is valid, the type of an
\* argument before its range, and an instance that raised has no attribute
\* assigned.
C29_FirstViolationReported ==
    op = "__init__" =>
        LET rp == Violation(args[1], 1)
            mf == Violation(MinFitOrDefault(args[2]), 2)
        IN  /\ rp # "none" =>
                  /\ result.status = "raise" /\ result.exc = rp
                  /\ result.calls = <<"return_period">>
            /\ (rp = "none" /\ mf # "none") =>
                  /\ result.status = "raise" /\ result.exc = mf
                  /\ result.calls = <<"min_fit">>
            /\ (rp = "none" /\ mf = "none") => result.status = "return"
            /\ result.status = "raise" => est = None

\* return_period is out of range and min_fit is of a wrong type: the error is
\* the ValueError about return_period
C29_Witness ==
    /\ op = "__init__" /\ args = <<PyInt(0), PyFloat(3)>>
    /\ result.status = "raise" /\ result.exc = "ValueError"
    /\ result.calls = <<"return_period">>
    /\ est = None

====
